---------------------------- MODULE Spec2Model ----------------------------
(***************************************************************************)
(* A model of exporter.py, the Confluence-to-Markdown exporter.            *)
(*                                                                         *)
(* Text is modelled at character level: a Python str is a sequence of      *)
(* one-character strings, so "|a|" is <<"|", "a", "|">> and a Markdown     *)
(* document is one such sequence with "\n" between its lines.  A character *)
(* outside ASCII (and the control characters that have no escape) is the   *)
(* one-character string written "uXXXX" with its code point: the bullet    *)
(* glyph U+2022 is "u2022", the no-break space is "u00a0".  The whitespace *)
(* and line-boundary characters are all listed; of the letters outside     *)
(* ASCII the ones in NonAsciiWordChars are modelled.                       *)
(***************************************************************************)
EXTENDS Naturals, Sequences, FiniteSets

VARIABLES
    pc,              \* control point of the run being modelled
    input,           \* the text (or title) the run started from
    markdown,        \* exporter.py `markdown`: the text as rewritten so far
    aligned,         \* `markdown` as fix_table_column_alignment returned it
    spaced,          \* `markdown` as fix_spacing_between_tables_and_text returned it
    toc,             \* exporter.py `toc`
    document,        \* the text written to the output file
    title,           \* exporter.py `title`
    page_id,         \* exporter.py `page_id`
    soup,            \* exporter.py `soup`: the parsed tree, a sequence of nodes
    attachments,     \* the attachments of the page still to download
    attachment_map,  \* exporter.py `attachment_map`
    completed,       \* history: the titles whose download completed for this page
    stages,          \* history: the pipeline stages finished for this page
    pages_done       \* number of pages exported so far

vars == <<pc, input, markdown, aligned, spaced, toc, document, title,
          page_id, soup, attachments, attachment_map, completed, stages, pages_done>>

textVars == <<input, markdown, aligned, spaced, toc, document, title>>
pageVars == <<page_id, soup, attachments, attachment_map, completed, stages, pages_done>>

(***************************************************************************)
(* Python str operations                                                   *)
(***************************************************************************)

\* The characters str.strip() removes and \s matches (str.isspace): tab, line
\* feed, vertical tab, form feed, carriage return, U+001C..U+001F, space,
\* U+0085, no-break space, U+1680, U+2000..U+200A, U+2028, U+2029, U+202F,
\* U+205F, U+3000.
Whitespace ==
    {"\t", "\n", "u000b", "\f", "\r", "u001c", "u001d", "u001e", "u001f", " ",
     "u0085", "u00a0", "u1680", "u2000", "u2001", "u2002", "u2003", "u2004",
     "u2005", "u2006", "u2007", "u2008", "u2009", "u200a", "u2028", "u2029",
     "u202f", "u205f", "u3000"}

\* The characters str.splitlines() cuts at ("\r\n" is one boundary).
LineBoundaries ==
    {"\n", "u000b", "\f", "\r", "u001c", "u001d", "u001e", "u0085", "u2028", "u2029"}

UpperCase == <<"A", "B", "C", "D", "E", "F", "G", "H", "I", "J", "K", "L", "M",
               "N", "O", "P", "Q", "R", "S", "T", "U", "V", "W", "X", "Y", "Z">>
LowerCase == <<"a", "b", "c", "d", "e", "f", "g", "h", "i", "j", "k", "l", "m",
               "n", "o", "p", "q", "r", "s", "t", "u", "v", "w", "x", "y", "z">>
Digits == {"0", "1", "2", "3", "4", "5", "6", "7", "8", "9"}

Range(f) == {f[i] : i \in DOMAIN f}

\* The modelled letters and digits outside ASCII, all matched by \w: e-acute
\* and E-acute, a-grave and A-grave, sharp s, two CJK characters, the
\* Arabic-Indic digit three, the ordinal indicator, superscript two, I with dot
\* above, dotless i, long s, the Kelvin sign, and the mathematical bold capital
\* A (an upper-case letter without a lower-case form).
NonAsciiWordChars ==
    {"u00e9", "u00c9", "u00e0", "u00c0", "u00df", "u4e2d", "u6587", "u0663",
     "u00aa", "u00b2", "u0130", "u0131", "u017f", "u212a", "u1d400"}

\* The modelled characters outside ASCII that str.lower() changes, each with
\* what it becomes: U+0130 becomes "i" and the combining dot above U+0307.
NonAsciiLower ==
    [c \in {"u00c9", "u00c0", "u0130", "u212a"} |->
        IF c = "u00c9" THEN <<"u00e9">>
        ELSE IF c = "u00c0" THEN <<"u00e0">>
        ELSE IF c = "u0130" THEN <<"i", "u0307">>
        ELSE <<"k">>]

\* str.lower() on one character: a string of one or two characters.
LowerChar(c) ==
    IF \E i \in 1..26 : UpperCase[i] = c
    THEN <<LowerCase[CHOOSE i \in 1..26 : UpperCase[i] = c]>>
    ELSE IF c \in DOMAIN NonAsciiLower THEN NonAsciiLower[c]
    ELSE <<c>>

\* str.lower()
RECURSIVE Lower(_)
Lower(s) == IF s = <<>> THEN <<>> ELSE LowerChar(Head(s)) \o Lower(Tail(s))

\* The regular expression class \w on one character (a str pattern: Unicode).
IsWordChar(c) ==
    c \in Range(UpperCase) \cup Range(LowerCase) \cup Digits \cup {"_"} \cup NonAsciiWordChars

\* s[k:] for a 0-based k.
From(s, k) == SubSeq(s, k + 1, Len(s))

\* str.startswith
StartsWith(s, p) == Len(p) <= Len(s) /\ SubSeq(s, 1, Len(p)) = p

\* str.endswith
EndsWith(s, p) == Len(p) <= Len(s) /\ SubSeq(s, Len(s) - Len(p) + 1, Len(s)) = p

\* `p in s` for strings
Contains(s, p) == \E k \in 0..Len(s) : StartsWith(From(s, k), p)

RECURSIVE LStrip(_)
LStrip(s) == IF s # <<>> /\ Head(s) \in Whitespace THEN LStrip(Tail(s)) ELSE s

RECURSIVE RStrip(_)
RStrip(s) ==
    IF s # <<>> /\ s[Len(s)] \in Whitespace THEN RStrip(SubSeq(s, 1, Len(s) - 1)) ELSE s

\* str.strip()
Strip(s) == RStrip(LStrip(s))

\* str.split(sep) for a one-character separator: always at least one part.
RECURSIVE Split(_, _)
Split(s, sep) ==
    IF \E k \in 1..Len(s) : s[k] = sep
    THEN LET k == CHOOSE k \in 1..Len(s) : s[k] = sep /\ \A j \in 1..(k - 1) : s[j] # sep
         IN  <<SubSeq(s, 1, k - 1)>> \o Split(From(s, k), sep)
    ELSE <<s>>

\* sep.join(parts)
RECURSIVE Join(_, _)
Join(parts, sep) ==
    IF parts = <<>> THEN <<>>
    ELSE IF Len(parts) = 1 THEN parts[1]
    ELSE parts[1] \o sep \o Join(Tail(parts), sep)

\* str.splitlines(): the pieces between line boundaries, without the empty
\* piece that follows a final boundary (and with no line for the empty text).
RECURSIVE SplitLines(_)
SplitLines(s) ==
    IF s = <<>> THEN <<>>
    ELSE IF \E k \in 1..Len(s) : s[k] \in LineBoundaries
    THEN LET k == CHOOSE k \in 1..Len(s) :
                      s[k] \in LineBoundaries /\ \A j \in 1..(k - 1) : s[j] \notin LineBoundaries
             crlf == s[k] = "\r" /\ k < Len(s) /\ s[k + 1] = "\n"
         IN  <<SubSeq(s, 1, k - 1)>> \o SplitLines(From(s, IF crlf THEN k + 1 ELSE k))
    ELSE <<s>>

\* str.replace(a, b) for one-character a.
Replace(s, a, b) == [i \in 1..Len(s) |-> IF s[i] = a THEN b ELSE s[i]]

RECURSIVE Flatten(_)
Flatten(ss) == IF ss = <<>> THEN <<>> ELSE Head(ss) \o Flatten(Tail(ss))

\* s * n
Repeat(s, n) == [i \in 1..(n * Len(s)) |-> s[((i - 1) % Len(s)) + 1]]

(***************************************************************************)
(* fix_table_column_alignment                                              *)
(***************************************************************************)

\* stripped.startswith("|") and stripped.endswith("|")
IsPipeRow(line) == StartsWith(Strip(line), <<"|">>) /\ EndsWith(Strip(line), <<"|">>)

\* Mutant: a line that is no pipe row ends table mode, as a blank line does.
NextInsideTablePipeRowsOnly(inside_table, line) == IsPipeRow(line)

\* The value of inside_table after the if/elif at the head of the loop body.
NextInsideTable(inside_table, line) ==
    IF IsPipeRow(line) THEN TRUE
    ELSE IF inside_table /\ Strip(line) = <<>> THEN FALSE
    ELSE inside_table

RECURSIVE DropLeadingEmpty(_)
DropLeadingEmpty(parts) ==
    IF parts # <<>> /\ parts[1] = <<>> THEN DropLeadingEmpty(Tail(parts)) ELSE parts

RECURSIVE DropTrailingEmpty(_)
DropTrailingEmpty(parts) ==
    IF parts # <<>> /\ parts[Len(parts)] = <<>>
    THEN DropTrailingEmpty(SubSeq(parts, 1, Len(parts) - 1))
    ELSE parts

\* The cells of a line in table mode, after both while loops.
TableCells(line) ==
    LET split == Split(line, "|")
        parts == [i \in 1..Len(split) |-> Strip(split[i])]
    IN  DropTrailingEmpty(DropLeadingEmpty(parts))

\* '| ' + ' | '.join(parts) + ' |'
RewriteTableRow(line) == <<"|", " ">> \o Join(TableCells(line), <<" ", "|", " ">>) \o <<" ", "|">>

\* The loop: fixed_lines after scanning `lines` from the state (inside_table, fixed_lines).
RECURSIVE AlignLoop(_, _, _)
AlignLoop(lines, inside_table, fixed_lines) ==
    IF lines = <<>> THEN fixed_lines
    ELSE LET line == Head(lines)
             inside == NextInsideTable(inside_table, line)
         IN  AlignLoop(Tail(lines), inside,
                       Append(fixed_lines, IF inside THEN RewriteTableRow(line) ELSE line))

fix_table_column_alignment(md) == Join(AlignLoop(Split(md, "\n"), FALSE, <<>>), <<"\n">>)

(***************************************************************************)
(* fix_spacing_between_tables_and_text                                     *)
(***************************************************************************)

\* line.strip().startswith("|")
IsTableLine(line) == StartsWith(Strip(line), <<"|">>)

\* The blank line the table branch puts before a table line.
BlankBeforeTable(prev_line_was_table, output) ==
    IF ~prev_line_was_table /\ output # <<>> /\ Strip(output[Len(output)]) # <<>>
    THEN <<<<>>>> ELSE <<>>

\* Mutant: the blank line is put after a table whatever follows it.
BlankAfterTableAlways(prev_line_was_table, line) ==
    IF prev_line_was_table THEN <<<<>>>> ELSE <<>>

\* The blank line the other branch puts before a line that follows a table line.
BlankAfterTable(prev_line_was_table, line) ==
    IF prev_line_was_table /\ Strip(line) # <<>> THEN <<<<>>>> ELSE <<>>

RECURSIVE SpacingLoop(_, _, _)
SpacingLoop(lines, prev_line_was_table, output) ==
    IF lines = <<>> THEN output
    ELSE LET line == Head(lines)
         IN  IF IsTableLine(line)
             THEN SpacingLoop(Tail(lines), TRUE,
                      output \o BlankBeforeTable(prev_line_was_table, output) \o <<line>>)
             ELSE SpacingLoop(Tail(lines), FALSE,
                      output \o BlankAfterTable(prev_line_was_table, line) \o <<line>>)

fix_spacing_between_tables_and_text(md) ==
    Join(SpacingLoop(Split(md, "\n"), FALSE, <<>>), <<"\n">>)

(***************************************************************************)
(* clean_existing_toc_and_wip_section                                      *)
(***************************************************************************)

\* "Table of Contents"
TableOfContents == <<"T", "a", "b", "l", "e", " ", "o", "f", " ", "C", "o", "n", "t", "e", "n", "t", "s">>

\* "work in progress"
WorkInProgress == <<"w", "o", "r", "k", " ", "i", "n", " ", "p", "r", "o", "g", "r", "e", "s", "s">>

\* "61falseTable of Contentsnonelisttrue"
MacroPlaceholder == <<"6", "1", "f", "a", "l", "s", "e", "T", "a", "b", "l", "e", " ", "o", "f", " ", "C", "o", "n", "t", "e", "n", "t", "s", "n", "o", "n", "e", "l", "i", "s", "t", "t", "r", "u", "e">>

\* Whether character c matches the pattern character p under re.IGNORECASE:
\* the two have the same lower case (U+0130 counts as "i"), or they are "s"
\* and the long s U+017F, or "i" and the dotless i U+0131.
MatchesIgnoringCase(c, p) ==
    LET low(x) == IF x = "u0130" THEN "i" ELSE Head(LowerChar(x))
    IN  \/ low(c) = low(p)
        \/ low(p) = "s" /\ c = "u017f"
        \/ low(p) = "i" /\ c = "u0131"

\* re.match(r'^#+ Table of Contents$', s, re.IGNORECASE)
MatchesTocHeading(s) ==
    \E k \in 1..Len(s) :
        /\ \A j \in 1..k : s[j] = "#"
        /\ \/ Len(s) = k + 1 + Len(TableOfContents)
           \/ Len(s) = k + 2 + Len(TableOfContents) /\ s[Len(s)] = "\n"
        /\ s[k + 1] = " "
        /\ \A i \in 1..Len(TableOfContents) :
               MatchesIgnoringCase(s[k + 1 + i], TableOfContents[i])

\* Mutant: only top-level bullet items continue the region.
StillInsideTocTopLevelOnly(inside_toc, line) == inside_toc /\ StartsWith(line, <<"*">>)

\* inside_toc after the first if of the loop body: a line that is no bullet
\* item ends the region.
StillInsideToc(inside_toc, line) ==
    inside_toc /\ (StartsWith(line, <<"*">>) \/ StartsWith(line, <<" ", " ", "*">>))

\* line.strip().lower().startswith("work in progress")
IsWipLine(line) == StartsWith(Lower(Strip(line)), WorkInProgress)

\* line.strip() == "61falseTable of Contentsnonelisttrue"
IsPlaceholderLine(line) == Strip(line) = MacroPlaceholder

RECURSIVE CleanLoop(_, _, _)
CleanLoop(lines, inside_toc, result) ==
    IF lines = <<>> THEN result
    ELSE LET line == Head(lines)
             inside == StillInsideToc(inside_toc, line)
         IN  IF inside THEN CleanLoop(Tail(lines), TRUE, result)
             ELSE IF MatchesTocHeading(Strip(line)) THEN CleanLoop(Tail(lines), TRUE, result)
             ELSE IF IsWipLine(line) THEN CleanLoop(Tail(lines), FALSE, result)
             ELSE IF IsPlaceholderLine(line) THEN CleanLoop(Tail(lines), FALSE, result)
             ELSE CleanLoop(Tail(lines), FALSE, Append(result, line))

\* The list `result` the function joins.
CleanedLines(md) == CleanLoop(SplitLines(md), FALSE, <<>>)

clean_existing_toc_and_wip_section(md) == Join(CleanedLines(md), <<"\n">>)

(***************************************************************************)
(* generate_toc                                                            *)
(***************************************************************************)

\* Highest heading level of the pattern ^(#{1,6}) (.*)
MaxHeadingLevel == 6

\* re.match(r'^(#{1,6}) (.*)', line): the length of group 1, or 0 for no match.
HeadingLevel(line) ==
    IF \E k \in 1..MaxHeadingLevel :
           k < Len(line) /\ (\A j \in 1..k : line[j] = "#") /\ line[k + 1] = " "
    THEN CHOOSE k \in 1..MaxHeadingLevel :
           k < Len(line) /\ (\A j \in 1..k : line[j] = "#") /\ line[k + 1] = " "
    ELSE 0

\* match.group(2).strip(): (.*) ends at the first "\n", if the line has one.
HeadingTitle(line) == Strip(Split(From(line, HeadingLevel(line) + 1), "\n")[1])

\* A character re.sub(r'[^\w\- ]', '', title) keeps.
SlugKeeps(c) == IsWordChar(c) \/ c = "-" \/ c = " "

\* Mutant: the slug keeps the letter case of the title.
SlugKeepsCase(t) == Replace(SelectSeq(t, SlugKeeps), " ", "-")

\* re.sub(r'[^\w\- ]', '', title).lower().replace(' ', '-')
Slug(t) == Replace(Lower(SelectSeq(t, SlugKeeps)), " ", "-")

\* f"{'  ' * (level - 1)}* [{title}](#{slug})"
TocEntry(level, t) ==
    Repeat(<<" ", " ">>, level - 1) \o <<"*", " ", "[">> \o t
        \o <<"]", "(", "#">> \o Slug(t) \o <<")">>

\* Mutant: the title is compared as written, not in lower case.
IsTocTitleCaseSensitive(t) == t = TableOfContents

\* title.lower() == "table of contents"
IsTocTitle(t) == Lower(t) = Lower(TableOfContents)

RECURSIVE TocLoop(_, _)
TocLoop(lines, entries) ==
    IF lines = <<>> THEN entries
    ELSE LET line == Head(lines)
         IN  IF HeadingLevel(line) = 0 \/ IsTocTitle(HeadingTitle(line))
             THEN TocLoop(Tail(lines), entries)
             ELSE TocLoop(Tail(lines),
                          Append(entries, TocEntry(HeadingLevel(line), HeadingTitle(line))))

\* The list `toc` the function joins.
TocEntries(md) == TocLoop(SplitLines(md), <<>>)

generate_toc(md) == Join(TocEntries(md), <<"\n">>)

(***************************************************************************)
(* The file the page loop writes                                           *)
(***************************************************************************)

\* f"{title}.md"
OutputFileName(t) == t \o <<".", "m", "d">>

\* f"# {title}\n\n" + "# Table of Contents\n\n" + toc + "\n\n" + markdown
WrittenFile(t, tc, md) ==
    <<"#", " ">> \o t \o <<"\n", "\n">>
        \o <<"#", " ">> \o TableOfContents \o <<"\n", "\n">>
        \o tc \o <<"\n", "\n">> \o md

(***************************************************************************)
(* The parsed tree (BeautifulSoup)                                         *)
(*                                                                         *)
(* A node is a record: its tag name, its text (a text node has the tag     *)
(* "#text"), its attributes in order, and its children.  `soup` is the     *)
(* sequence of the top-level nodes.                                        *)
(***************************************************************************)

TagText == <<"#", "t", "e", "x", "t">>
TagBr == <<"b", "r">>
TagTd == <<"t", "d">>
TagTh == <<"t", "h">>
TagP == <<"p">>
TagUl == <<"u", "l">>
TagLi == <<"l", "i">>
TagImg == <<"i", "m", "g">>
TagAcImage == <<"a", "c", ":", "i", "m", "a", "g", "e">>
TagRiAttachment == <<"r", "i", ":", "a", "t", "t", "a", "c", "h", "m", "e", "n", "t">>
TagRiUrl == <<"r", "i", ":", "u", "r", "l">>
AttrRiFilename == <<"r", "i", ":", "f", "i", "l", "e", "n", "a", "m", "e">>
AttrSrc == <<"s", "r", "c">>
AttrClass == <<"c", "l", "a", "s", "s">>

\* Tags serialised without a closing tag.
VoidTags == {TagBr, TagImg}

Attr(name, value) == [name |-> name, value |-> value]

\* soup.new_tag(name, **attrs) with children appended.
Element(tag, attrs, kids) == [tag |-> tag, text |-> <<>>, attrs |-> attrs, kids |-> kids]

\* A NavigableString.
TextNode(s) == [tag |-> TagText, text |-> s, attrs |-> <<>>, kids |-> <<>>]

\* tag.has_attr(name)
HasAttr(node, name) == \E i \in 1..Len(node.attrs) : node.attrs[i].name = name

\* tag[name]
AttrValue(node, name) ==
    node.attrs[CHOOSE i \in 1..Len(node.attrs) : node.attrs[i].name = name].value

\* The entity a character of a text node is written as.
EscapeChar(c) ==
    IF c = "&" THEN <<"&", "a", "m", "p", ";">>
    ELSE IF c = "<" THEN <<"&", "l", "t", ";">>
    ELSE IF c = ">" THEN <<"&", "g", "t", ";">>
    ELSE <<c>>

EscapeText(s) == Flatten([i \in 1..Len(s) |-> EscapeChar(s[i])])

\* ' name="value"' for each attribute.
SerializeAttrs(attrs) ==
    Flatten([i \in 1..Len(attrs) |->
                <<" ">> \o attrs[i].name \o <<"=", "\"">> \o attrs[i].value \o <<"\"">>])

\* str(node) / the pieces of decode_contents().
RECURSIVE Serialize(_)
Serialize(node) ==
    IF node.tag = TagText THEN EscapeText(node.text)
    ELSE IF node.tag \in VoidTags
    THEN <<"<">> \o node.tag \o SerializeAttrs(node.attrs) \o <<"/", ">">>
    ELSE <<"<">> \o node.tag \o SerializeAttrs(node.attrs) \o <<">">>
            \o Flatten([i \in 1..Len(node.kids) |-> Serialize(node.kids[i])])
            \o <<"<", "/">> \o node.tag \o <<">">>

\* cell.decode_contents()
DecodeContents(node) == Flatten([i \in 1..Len(node.kids) |-> Serialize(node.kids[i])])

(***************************************************************************)
(* fix_unclosed_tags                                                       *)
(***************************************************************************)

\* br.insert_after("\n") for every br of the tree.
RECURSIVE InsertNewlineAfterBr(_)
InsertNewlineAfterBr(nodes) ==
    IF nodes = <<>> THEN <<>>
    ELSE LET n == Head(nodes)
             m == [n EXCEPT !.kids = InsertNewlineAfterBr(n.kids)]
         IN  (IF n.tag = TagBr THEN <<m, TextNode(<<"\n">>)>> ELSE <<m>>)
                 \o InsertNewlineAfterBr(Tail(nodes))

fix_unclosed_tags(tree) == InsertNewlineAfterBr(tree)

(***************************************************************************)
(* fix_lists_in_table_cells_to_html_list                                   *)
(***************************************************************************)

\* The bullet glyphs '*', '-' and U+2022.
BulletGlyphs == {"*", "-", "u2022"}

\* line.startswith("*") or line.startswith("-") or line.startswith(U+2022)
StartsWithGlyph(s) == s # <<>> /\ Head(s) \in BulletGlyphs

\* Number of whitespace characters s starts with.
RECURSIVE LeadingWhitespace(_)
LeadingWhitespace(s) ==
    IF s # <<>> /\ Head(s) \in Whitespace THEN 1 + LeadingWhitespace(Tail(s)) ELSE 0

\* Length of the match of <br\s*/?> at the start of s, 0 for no match.
BrMatchLen(s) ==
    IF ~StartsWith(s, <<"<", "b", "r">>) THEN 0
    ELSE LET w == LeadingWhitespace(From(s, 3))
             rest == From(s, 3 + w)
         IN  IF StartsWith(rest, <<"/", ">">>) THEN 3 + w + 2
             ELSE IF StartsWith(rest, <<">">>) THEN 3 + w + 1
             ELSE 0

\* re.split(r'<br\s*/?>', html)
RECURSIVE ReSplitBr(_)
ReSplitBr(html) ==
    IF \E k \in 0..Len(html) : BrMatchLen(From(html, k)) > 0
    THEN LET k == CHOOSE k \in 0..Len(html) :
                      /\ BrMatchLen(From(html, k)) > 0
                      /\ \A j \in 0..(k - 1) : BrMatchLen(From(html, j)) = 0
         IN  <<SubSeq(html, 1, k)>> \o ReSplitBr(From(html, k + BrMatchLen(From(html, k))))
    ELSE <<html>>

\* The condition of the outer if: the markup starts with a glyph or holds "<br".
LooksLikeList(html) == StartsWithGlyph(Strip(html)) \/ Contains(html, <<"<", "b", "r">>)

\* re.sub(r'^[*\-(U+2022)]\s*', '', line) for a line that starts with a glyph.
ItemText(line) == LStrip(Tail(line))

\* The list `items` (the string of each li) built from the markup of a cell.
ListItems(html) ==
    LET lines == ReSplitBr(html)
        stripped == [i \in 1..Len(lines) |-> Strip(lines[i])]
        bullets == SelectSeq(stripped, StartsWithGlyph)
    IN  [i \in 1..Len(bullets) |-> ItemText(bullets[i])]

\* The ul appended to the cleared cell.
ListNode(items) ==
    Element(TagUl, <<>>, [i \in 1..Len(items) |-> Element(TagLi, <<>>, <<TextNode(items[i])>>)])

\* The loop over soup.find_all(['td', 'th']): a cell whose markup yields items
\* is cleared and given the list; the cells inside it go with its old content.
RECURSIVE FixCells(_)
FixCells(nodes) ==
    IF nodes = <<>> THEN <<>>
    ELSE LET n == Head(nodes)
             html == DecodeContents(n)
             items == IF LooksLikeList(html) THEN ListItems(html) ELSE <<>>
         IN  (IF n.tag \in {TagTd, TagTh} /\ items # <<>>
              THEN <<[n EXCEPT !.kids = <<ListNode(items)>>]>>
              ELSE <<[n EXCEPT !.kids = FixCells(n.kids)]>>)
                 \o FixCells(Tail(nodes))

fix_lists_in_table_cells_to_html_list(tree) == FixCells(tree)

(***************************************************************************)
(* The page loop: attachments and <ac:image> replacement                   *)
(***************************************************************************)

\* A character re.sub(r"[^\w\-_\.]", "", filename) keeps.
FilenameKeeps(c) == IsWordChar(c) \/ c \in {"-", "_", "."}

\* filename_raw.replace(" ", "_") and the re.sub after it.
SanitizeFilename(filename_raw) == SelectSeq(Replace(filename_raw, " ", "_"), FilenameKeeps)

\* What one pass of the try block can meet: requests.get raises, the status is
\* not 200, the body breaks off while it is written, or the file is written.
DownloadOutcomes == {"raises", "not_200", "write_fails", "saved"}

\* Longest file name, in bytes, that open() accepts (NAME_MAX).
NameMax == 255

\* The modelled characters of three bytes in UTF-8 (U+0800 to U+FFFF).
ThreeByteChars ==
    {"u1680", "u2000", "u2001", "u2002", "u2003", "u2004", "u2005", "u2006",
     "u2007", "u2008", "u2009", "u200a", "u2028", "u2029", "u202f", "u205f",
     "u3000", "u2022", "u4e2d", "u6587", "u212a"}

\* The modelled characters of two bytes in UTF-8 (U+0080 to U+07FF).
TwoByteChars ==
    {"u0085", "u00a0", "u0307"} \cup (NonAsciiWordChars \ (ThreeByteChars \cup {"u1d400"}))

\* Number of bytes of one character in the file system's encoding (UTF-8).
Utf8Bytes(c) ==
    IF c = "u1d400" THEN 4
    ELSE IF c \in ThreeByteChars THEN 3
    ELSE IF c \in TwoByteChars THEN 2
    ELSE 1

\* Number of bytes of a file name: one for each character, and one more for
\* each character of at least two, of at least three, and of four bytes.
ByteLength(s) ==
    Len(s) + Cardinality({i \in 1..Len(s) : Utf8Bytes(s[i]) >= 2})
           + Cardinality({i \in 1..Len(s) : Utf8Bytes(s[i]) >= 3})
           + Cardinality({i \in 1..Len(s) : Utf8Bytes(s[i]) >= 4})

\* Whether the try block reaches attachment_map[filename_raw] = filename.
\* open() raises for a folder, which is the attachment folder itself (an empty
\* filename or ".") or its parent (".."), and for a name longer than NameMax.
DownloadCompletes(outcome, filename) ==
    /\ outcome = "saved"
    /\ filename \notin {<<>>, <<".">>, <<".", ".">>}
    /\ ByteLength(filename) <= NameMax

\* attachment_map[key] = value
MapPut(map, key, value) ==
    [k \in DOMAIN map \cup {key} |-> IF k = key THEN value ELSE map[k]]

\* f"./attachments/{page_id}/{filename}"
ImageSrc(pid, filename) == <<".", "/", "a", "t", "t", "a", "c", "h", "m", "e", "n", "t", "s", "/">> \o pid \o <<"/">> \o filename

\* node.find(tag): the first descendant with that tag, as a sequence of 0 or 1 node.
RECURSIVE FindFirst(_, _)
FindFirst(nodes, tag) ==
    IF nodes = <<>> THEN <<>>
    ELSE IF Head(nodes).tag = tag THEN <<Head(nodes)>>
    ELSE IF FindFirst(Head(nodes).kids, tag) # <<>> THEN FindFirst(Head(nodes).kids, tag)
    ELSE FindFirst(Tail(nodes), tag)

\* Mutant: the img points at the original file name, not at the mapped one.
ReplaceImageRawName(img, map, pid) ==
    LET ri_attachment == FindFirst(img.kids, TagRiAttachment)
    IN  IF /\ ri_attachment # <<>>
           /\ HasAttr(ri_attachment[1], AttrRiFilename)
           /\ AttrValue(ri_attachment[1], AttrRiFilename) \in DOMAIN map
        THEN Element(TagImg,
                     <<Attr(AttrSrc, ImageSrc(pid, AttrValue(ri_attachment[1], AttrRiFilename)))>>,
                     <<>>)
        ELSE img

\* The body of the loop over soup.find_all("ac:image") for one node: the img
\* that replaces it, or the node itself.
ReplaceImage(img, map, pid) ==
    LET ri_attachment == FindFirst(img.kids, TagRiAttachment)
    IN  IF /\ ri_attachment # <<>>
           /\ HasAttr(ri_attachment[1], AttrRiFilename)
           /\ AttrValue(ri_attachment[1], AttrRiFilename) \in DOMAIN map
           /\ map[AttrValue(ri_attachment[1], AttrRiFilename)] # <<>>
        THEN Element(TagImg,
                     <<Attr(AttrSrc, ImageSrc(pid, map[AttrValue(ri_attachment[1], AttrRiFilename)]))>>,
                     <<>>)
        ELSE img

\* The loop over soup.find_all("ac:image").
RECURSIVE ReplaceImages(_, _, _)
ReplaceImages(nodes, map, pid) ==
    IF nodes = <<>> THEN <<>>
    ELSE LET n == Head(nodes)
             r == IF n.tag = TagAcImage THEN ReplaceImage(n, map, pid) ELSE n
         IN  <<[r EXCEPT !.kids = ReplaceImages(r.kids, map, pid)]>>
                 \o ReplaceImages(Tail(nodes), map, pid)

(***************************************************************************)
(* Bounds and input sets                                                   *)
(***************************************************************************)

\* Longest text over TableAlphabet given to the table passes.
MaxLen == 5

\* Most lines in a text built from CleanLineSet or TocLineSet.
MaxLines == 3

\* Longest heading title over SlugAlphabet.
MaxTitleLen == 3

\* All strings over alphabet A of length at most n.
Strings(A, n) == UNION {[1..k -> A] : k \in 0..n}

\* All texts of at most n lines drawn from L.
Texts(L, n) == {Join(ls, <<"\n">>) : ls \in UNION {[1..k -> L] : k \in 1..n}}

TableAlphabet == {"|", " ", "a", "\n", "u00a0"}

\* Texts with a carriage return: whitespace to str.strip(), a line boundary to
\* str.splitlines().
CarriageReturnTexts ==
    { <<"|", "\r", "|">>, <<"|", "a", "\r", "b", "|">>, <<"|", "\r", "\n", "a">>,
      <<"a", "\r", "|">> }

TableTexts == Strings(TableAlphabet, MaxLen) \cup CarriageReturnTexts

\* Lines that exercise each rule of clean_existing_toc_and_wip_section.
CleanLineSet ==
    { <<"#", " ", "T", "a", "b", "l", "e", " ", "o", "f", " ", "C", "o", "n", "t", "e", "n", "t", "s">>,
      <<"#", "#", " ", "T", "A", "B", "L", "E", " ", "o", "f", " ", "c", "o", "n", "t", "e", "n", "t", "s">>,
      <<"#", "#", "#", "#", "#", "#", "#", " ", "T", "a", "b", "l", "e", " ", "o", "f", " ", "C", "o", "n", "t", "e", "n", "t", "s">>,
      <<" ", "#", " ", "T", "a", "b", "l", "e", " ", "o", "f", " ", "C", "o", "n", "t", "e", "n", "t", "s", " ">>,
      <<"#", " ", "T", "a", "b", "l", "e", " ", "o", "f", " ", "C", "o", "n", "t", "e", "n", "t", "s", " ", "x">>,
      <<"#", " ", "T", "a", "b", "l", "e", " ", "o", "f", " ", "C", "o", "n", "t", "e", "n", "t", "u017f">>,
      <<"u00a0", "W", "O", "R", "u212a", " ", "I", "N", " ", "P", "R", "O", "G", "R", "E", "S", "S">>,
      <<"a", "\r", "b">>,
      <<"*", " ", "a">>,
      <<" ", " ", "*", " ", "a">>,
      <<" ", "*", " ", "a">>,
      <<"a">>,
      <<>>,
      <<"W", "o", "r", "k", " ", "I", "n", " ", "P", "r", "o", "g", "r", "e", "s", "s", ":", " ", "a">>,
      <<"a", " ", "w", "o", "r", "k", " ", "i", "n", " ", "p", "r", "o", "g", "r", "e", "s", "s">>,
      <<" ", "6", "1", "f", "a", "l", "s", "e", "T", "a", "b", "l", "e", " ", "o", "f", " ", "C", "o", "n", "t", "e", "n", "t", "s", "n", "o", "n", "e", "l", "i", "s", "t", "t", "r", "u", "e">> }

\* Lines that exercise each rule of generate_toc.
TocLineSet ==
    { <<"#", " ", "a">>,
      <<"#", "#", " ", "a">>,
      <<"#", "#", "#", "#", "#", "#", " ", "B", " ", "c">>,
      <<"#", "#", "#", "#", "#", "#", "#", " ", "a">>,
      <<"#", "a">>,
      <<"#", "u00a0", "a">>,
      <<"#", " ", "u00a0", "a", "\f", "b", "u00a0">>,
      <<" ", "#", " ", "a">>,
      <<"a">>,
      <<>>,
      <<"#", " ", "T", "a", "b", "l", "e", " ", "o", "f", " ", "C", "o", "n", "t", "e", "n", "t", "s">>,
      <<"#", "#", " ", " ", "T", "A", "B", "L", "E", " ", "O", "F", " ", "c", "o", "n", "t", "e", "n", "t", "s", " ">>,
      <<"#", " ", "T", "a", "b", "l", "e", " ", "o", "f", " ", "C", "o", "n", "t", "e", "n", "t", "s", " ", "a">>,
      <<"#", " ">> }

SlugAlphabet == {"A", "b", "1", "_", "-", " ", "\t", "!", "u00a0", "u00c9", "u0130", "u1d400"}

\* "My Section 1!"
MySection1 == <<"M", "y", " ", "S", "e", "c", "t", "i", "o", "n", " ", "1", "!">>

\* One-heading documents "# <title>".
SlugTexts == {<<"#", " ">> \o t : t \in Strings(SlugAlphabet, MaxTitleLen) \cup {MySection1}}

\* Bodies with headings, for the written file.
HeadingTexts == Texts({<<"#", " ", "a">>, <<"#", "#", " ", "B">>, <<"*", " ", "a">>, <<"a">>}, MaxLines)

\* page["title"] values: "a/b", and a title whose file name "<title>.md" is one
\* byte longer than NameMax.
PageTitles == {<<"a", "/", "b">>, Repeat(<<"a">>, NameMax - 2)}

\* exporter.py `title` values.
Titles == {Replace(t, "/", "_") : t \in PageTitles}

\* Most pages exported in a run, and most attachments of a page.
MaxPages == 2
MaxAttachments == 2

\* Most children of the table cell given to the Markup Preprocessor.
MaxKids == 3

\* A title of 128 two-byte letters: a file name one byte longer than NameMax.
LongTitle == Repeat(<<"u00e9">>, (NameMax + 1) \div 2)

\* Attachment titles: "a b" is saved as "a_b", "c.d" as "c.d", "!" has no
\* character left for a file name, "!." has the file name ".", and LongTitle
\* a name that is too long.
AttachmentTitles == {<<"a", " ", "b">>, <<"c", ".", "d">>, <<"!">>, <<"!", ".">>, LongTitle}

AttachmentLists == UNION {[1..k -> AttachmentTitles] : k \in 0..MaxAttachments}

\* <ac:image><ri:attachment ri:filename="..."/></ac:image>
AcImage(filename) ==
    Element(TagAcImage, <<>>,
            <<Element(TagRiAttachment, <<Attr(AttrRiFilename, filename)>>, <<>>)>>)

\* <ac:image><ri:url/></ac:image>: an image that names no attachment.
AcImageUrl == Element(TagAcImage, <<>>, <<Element(TagRiUrl, <<>>, <<>>)>>)

\* <ac:image><ri:attachment/></ac:image>: a reference without a file name.
AcImageNoName == Element(TagAcImage, <<>>, <<Element(TagRiAttachment, <<>>, <<>>)>>)

Br == Element(TagBr, <<>>, <<>>)

\* <br class="x"/>
BrWithClass == Element(TagBr, <<Attr(AttrClass, <<"x">>)>>, <<>>)

\* The trees of the fetched pages.
PageSoups ==
    { <<AcImage(<<"a", " ", "b">>), TextNode(<<"t">>), AcImage(<<"c", ".", "d">>)>>,
      <<AcImage(<<"c", ".", "d">>), AcImageUrl, Element(TagImg, <<Attr(AttrSrc, <<"x">>)>>, <<>>)>>,
      <<Element(TagTd, <<>>, <<TextNode(<<"*", " ", "x">>), Br, AcImage(<<"a", " ", "b">>)>>)>>,
      <<AcImageNoName, AcImage(<<"!">>), AcImage(<<"!", ".">>), AcImage(LongTitle)>>,
      <<Element(TagTd, <<>>, <<TextNode(<<"*", " ">>), AcImage(<<"c", ".", "d">>)>>)>> }

\* What the children of a cell are drawn from.
CellKids ==
    { TextNode(<<"*", " ", "a">>), TextNode(<<"-", "b">>), TextNode(<<"u00a0", "u2022", " ", "c">>),
      TextNode(<<"d">>), Br, BrWithClass }

\* A paragraph and a cell with the same children.
CellSoups ==
    { <<Element(TagP, <<>>, kids), Element(tag, <<>>, kids)>> :
          kids \in UNION {[1..k -> CellKids] : k \in 0..MaxKids}, tag \in {TagTd, TagTh} }

\* Texts the converter (markdownify) returns.
MarkdownOutputs == {<<"a">>, <<"#", " ", "a", "\n", "|", "a", "|", "\n", "b">>}

(***************************************************************************)
(* Post-processing, table of contents and the written file                 *)
(* (convert_html_to_markdown_with_fixes lines 142-144, page loop 197-205)  *)
(***************************************************************************)

NoText == <<>>

\* The page-loop variables before any page is fetched.
NoPage ==
    /\ page_id = <<>>
    /\ soup = <<>>
    /\ attachments = <<>>
    /\ attachment_map = <<>>
    /\ completed = {}
    /\ stages = <<>>
    /\ pages_done = 0

\* markdown = fix_table_column_alignment(markdown)
Align ==
    /\ pc = "converted"
    /\ markdown' = fix_table_column_alignment(markdown)
    /\ aligned' = markdown'
    /\ stages' = Append(stages, "align")
    /\ pc' = "aligned"
    /\ UNCHANGED <<input, spaced, toc, document, title,
                   page_id, soup, attachments, attachment_map, completed, pages_done>>

\* markdown = fix_spacing_between_tables_and_text(markdown)
Spacing ==
    /\ pc = "aligned"
    /\ markdown' = fix_spacing_between_tables_and_text(markdown)
    /\ spaced' = markdown'
    /\ stages' = Append(stages, "spacing")
    /\ pc' = "spaced"
    /\ UNCHANGED <<input, aligned, toc, document, title,
                   page_id, soup, attachments, attachment_map, completed, pages_done>>

\* markdown = clean_existing_toc_and_wip_section(markdown); return markdown
Clean ==
    /\ pc = "spaced"
    /\ markdown' = clean_existing_toc_and_wip_section(markdown)
    /\ stages' = Append(stages, "clean")
    /\ pc' = "cleaned"
    /\ UNCHANGED <<input, aligned, spaced, toc, document, title,
                   page_id, soup, attachments, attachment_map, completed, pages_done>>

\* toc = generate_toc(markdown)
GenerateToc ==
    /\ pc = "cleaned"
    /\ toc' = generate_toc(markdown)
    /\ stages' = Append(stages, "toc")
    /\ pc' = "toc"
    /\ UNCHANGED <<input, markdown, aligned, spaced, document, title,
                   page_id, soup, attachments, attachment_map, completed, pages_done>>

\* Lines 200-205: open(f"{title}.md", "w") and the four f.write calls.  open()
\* is outside any try: for a file name longer than NameMax it raises, no file
\* is written and the script ends.
WriteFile ==
    /\ pc = "toc"
    /\ IF ByteLength(OutputFileName(title)) <= NameMax
       THEN /\ document' = WrittenFile(title, toc, markdown)
            /\ stages' = Append(stages, "write")
            /\ pc' = "written"
       ELSE /\ pc' = "exited"
            /\ UNCHANGED <<document, stages>>
    /\ UNCHANGED <<input, markdown, aligned, spaced, toc, title,
                   page_id, soup, attachments, attachment_map, completed, pages_done>>

\* The converter has returned `input` for a page titled `title`.
InitPost ==
    /\ pc = "converted"
    /\ input \in TableTexts \cup HeadingTexts
    /\ title \in Titles
    /\ markdown = input
    /\ aligned = NoText /\ spaced = NoText /\ toc = NoText /\ document = NoText
    /\ NoPage

NextPost == Align \/ Spacing \/ Clean \/ GenerateToc \/ WriteFile

SpecPost == InitPost /\ [][NextPost]_vars

(***************************************************************************)
(* The passes as functions of any text                                     *)
(***************************************************************************)

InitCall(inputs) ==
    /\ pc = "call"
    /\ input \in inputs
    /\ title = NoText
    /\ markdown = NoText /\ aligned = NoText /\ spaced = NoText
    /\ toc = NoText /\ document = NoText
    /\ NoPage

CallSpacing ==
    /\ pc = "call"
    /\ markdown' = fix_spacing_between_tables_and_text(input)
    /\ pc' = "return"
    /\ UNCHANGED <<input, aligned, spaced, toc, document, title>>
    /\ UNCHANGED pageVars

CallClean ==
    /\ pc = "call"
    /\ markdown' = clean_existing_toc_and_wip_section(input)
    /\ pc' = "return"
    /\ UNCHANGED <<input, aligned, spaced, toc, document, title>>
    /\ UNCHANGED pageVars

CallToc ==
    /\ pc = "call"
    /\ toc' = generate_toc(input)
    /\ pc' = "return"
    /\ UNCHANGED <<input, markdown, aligned, spaced, document, title>>
    /\ UNCHANGED pageVars

SpecSpacing == InitCall(TableTexts) /\ [][CallSpacing]_vars

SpecClean == InitCall(Texts(CleanLineSet, MaxLines)) /\ [][CallClean]_vars

SpecToc == InitCall(Texts(TocLineSet, MaxLines) \cup SlugTexts) /\ [][CallToc]_vars

(***************************************************************************)
(* convert_html_to_markdown_with_fixes lines 131-141: the Markup           *)
(* Preprocessor and the converter                                          *)
(***************************************************************************)

\* soup = fix_unclosed_tags(soup)
FixUnclosedTags ==
    /\ pc = "parsed"
    /\ soup' = fix_unclosed_tags(soup)
    /\ stages' = Append(stages, "br")
    /\ pc' = "br_fixed"
    /\ UNCHANGED textVars
    /\ UNCHANGED <<page_id, attachments, attachment_map, completed, pages_done>>

\* soup = fix_lists_in_table_cells_to_html_list(soup)
FixLists ==
    /\ pc = "br_fixed"
    /\ soup' = fix_lists_in_table_cells_to_html_list(soup)
    /\ stages' = Append(stages, "lists")
    /\ pc' = "lists_fixed"
    /\ UNCHANGED textVars
    /\ UNCHANGED <<page_id, attachments, attachment_map, completed, pages_done>>

\* markdown = md(str(soup), ...): the converter is a library; it returns some text.
Markdownify ==
    /\ pc = "lists_fixed"
    /\ \E m \in MarkdownOutputs : markdown' = m
    /\ stages' = Append(stages, "convert")
    /\ pc' = "converted"
    /\ UNCHANGED <<input, aligned, spaced, toc, document, title>>
    /\ UNCHANGED <<page_id, soup, attachments, attachment_map, completed, pages_done>>

\* A tree with a paragraph and a table cell has been parsed.
InitCells ==
    /\ pc = "parsed"
    /\ soup \in CellSoups
    /\ input = soup
    /\ title = NoText
    /\ markdown = NoText /\ aligned = NoText /\ spaced = NoText
    /\ toc = NoText /\ document = NoText
    /\ page_id = <<>> /\ attachments = <<>> /\ attachment_map = <<>>
    /\ completed = {} /\ stages = <<>> /\ pages_done = 0

NextCells == FixUnclosedTags \/ FixLists

SpecCells == InitCells /\ [][NextCells]_vars

(***************************************************************************)
(* The page loop, lines 148-205                                            *)
(***************************************************************************)

\* page["id"] of the n-th page.
PageId(n) == <<"p">> \o Repeat(<<"i">>, n)

\* Lines 150-163: the next page is fetched and parsed, attachment_map = {}.
\* markdown and toc keep the values of the page before until lines 196-197.
FetchPage ==
    /\ pc = "idle"
    /\ pages_done < MaxPages
    /\ \E t \in PageTitles, s \in PageSoups, atts \in AttachmentLists :
           /\ title' = Replace(t, "/", "_")
           /\ soup' = s
           /\ attachments' = atts
           /\ input' = [soup |-> s, attachments |-> atts]
    /\ page_id' = PageId(pages_done + 1)
    /\ attachment_map' = <<>>
    /\ completed' = {}
    /\ stages' = <<>>
    /\ pc' = "attachments"
    /\ UNCHANGED <<markdown, aligned, spaced, toc, document, pages_done>>

\* Lines 150-163 when a call outside any try raises, which ends the script:
\* confluence.get_page_by_id (line 154, soup not yet assigned), os.makedirs
\* (line 160, attachment_map not yet emptied) or
\* confluence.get_attachments_from_content (line 163).
FetchRaises ==
    /\ pc = "idle"
    /\ pages_done < MaxPages
    /\ \E t \in PageTitles : title' = Replace(t, "/", "_")
    /\ page_id' = PageId(pages_done + 1)
    /\ \E at \in {"get_page_by_id", "makedirs", "get_attachments"}, s \in PageSoups :
           /\ soup' = IF at = "get_page_by_id" THEN soup ELSE s
           /\ attachment_map' = IF at = "get_attachments" THEN <<>> ELSE attachment_map
           /\ completed' = IF at = "get_attachments" THEN {} ELSE completed
           /\ input' = IF at = "get_attachments"
                       THEN [soup |-> s, attachments |-> <<>>]
                       ELSE input
    /\ pc' = "exited"
    /\ UNCHANGED <<attachments, stages, markdown, aligned, spaced, toc, document, pages_done>>

\* Line 169 when the attachment has no download link: the KeyError is raised
\* outside the try and ends the script.
LinkMissing ==
    /\ pc = "attachments"
    /\ attachments # <<>>
    /\ pc' = "exited"
    /\ UNCHANGED <<page_id, soup, attachments, attachment_map, completed, stages, pages_done>>
    /\ UNCHANGED textVars

\* Lines 164-183: one pass of the loop over the attachments.
Download ==
    /\ pc = "attachments"
    /\ attachments # <<>>
    /\ \E outcome \in DownloadOutcomes :
           LET filename_raw == Head(attachments)
               filename == SanitizeFilename(filename_raw)
           IN  IF DownloadCompletes(outcome, filename)
               THEN /\ attachment_map' = MapPut(attachment_map, filename_raw, filename)
                    /\ completed' = completed \cup {filename_raw}
               ELSE UNCHANGED <<attachment_map, completed>>
    /\ attachments' = Tail(attachments)
    /\ UNCHANGED <<pc, page_id, soup, stages, pages_done>>
    /\ UNCHANGED textVars

\* Lines 186-196: the loop over the ac:image nodes, then str(soup) is handed
\* to convert_html_to_markdown_with_fixes, which parses it again.
RewriteImages ==
    /\ pc = "attachments"
    /\ attachments = <<>>
    /\ soup' = ReplaceImages(soup, attachment_map, page_id)
    /\ stages' = Append(stages, "rewrite")
    /\ pc' = "parsed"
    /\ UNCHANGED <<page_id, attachments, attachment_map, completed, pages_done>>
    /\ UNCHANGED textVars

\* The for loop goes on to the next page (the history of the page is dropped).
NextPage ==
    /\ pc = "written"
    /\ pc' = "idle"
    /\ pages_done' = pages_done + 1
    /\ input' = NoText
    /\ UNCHANGED <<page_id, soup, attachments, attachment_map, completed, stages>>
    /\ UNCHANGED <<markdown, aligned, spaced, toc, document, title>>

\* Before the first page.
Init ==
    /\ pc = "idle"
    /\ input = NoText /\ title = NoText
    /\ markdown = NoText /\ aligned = NoText /\ spaced = NoText
    /\ toc = NoText /\ document = NoText
    /\ NoPage

Next ==
    \/ FetchPage \/ FetchRaises \/ Download \/ LinkMissing \/ RewriteImages
    \/ FixUnclosedTags \/ FixLists \/ Markdownify
    \/ Align \/ Spacing \/ Clean
    \/ GenerateToc \/ WriteFile \/ NextPage

Spec == Init /\ [][Next]_vars

(***************************************************************************)
(* Notions the properties are stated in                                    *)
(***************************************************************************)

\* Empty after trimming.
Blank(line) == \A i \in 1..Len(line) : line[i] \in Whitespace

\* The first character that is not whitespace is a pipe.
TrimmedStartsWithPipe(line) ==
    \E i \in 1..Len(line) : line[i] = "|" /\ \A j \in 1..(i - 1) : line[j] \in Whitespace

\* The last character that is not whitespace is a pipe.
TrimmedEndsWithPipe(line) ==
    \E i \in 1..Len(line) : line[i] = "|" /\ \A j \in (i + 1)..Len(line) : line[j] \in Whitespace

\* Position i is inside a table: a line at j <= i starts and ends with a pipe
\* and no blank line lies in (j, i].
InTableAt(lines, i) ==
    \E j \in 1..i :
        /\ TrimmedStartsWithPipe(lines[j]) /\ TrimmedEndsWithPipe(lines[j])
        /\ \A k \in (j + 1)..i : ~Blank(lines[k])

\* seq without the positions in R.
Without(seq, R) ==
    LET idx == SelectSeq([i \in 1..Len(seq) |-> i], LAMBDA i : i \notin R)
    IN  [k \in 1..Len(idx) |-> seq[idx[k]]]

\* Number of "#" a line starts with.
RECURSIVE LeadingHashes(_)
LeadingHashes(s) == IF s # <<>> /\ Head(s) = "#" THEN 1 + LeadingHashes(Tail(s)) ELSE 0

InputLines == Split(input, "\n")
AlignedLines == Split(aligned, "\n")

(***************************************************************************)
(* C10, C2, C1: checked under SpecPost                                     *)
(***************************************************************************)

\* C10: fix_table_column_alignment treats the line at position i as inside a
\* table exactly when some line j <= i starts and ends with '|' (trimmed) and no
\* blank line lies in (j, i]; lines inside a table are rewritten as table rows
\* (also those that do not start and end with '|'), every other line (a blank
\* line that ends table mode included) is emitted unchanged.
C10_TableMode ==
    pc # "converted" =>
        /\ Len(AlignedLines) = Len(InputLines)
        /\ \A i \in 1..Len(InputLines) :
               AlignedLines[i] = IF InTableAt(InputLines, i)
                                 THEN RewriteTableRow(InputLines[i])
                                 ELSE InputLines[i]

\* A text in which a line without pipes was rewritten as a row in table mode
\* and a later blank line ended table mode.
C10_Witness ==
    /\ pc = "aligned"
    /\ \E i, k \in 1..Len(InputLines) :
           /\ i < k
           /\ InTableAt(InputLines, i)
           /\ ~TrimmedStartsWithPipe(InputLines[i])
           /\ AlignedLines[i] # InputLines[i]
           /\ Blank(InputLines[k]) /\ AlignedLines[k] = InputLines[k]

\* A row as C2 describes it: '| ' first, ' |' last, no '||', and the first and
\* the last cell not empty.
WellFormedRow(row) ==
    LET cells == Split(row, "|")
    IN  /\ StartsWith(row, <<"|", " ">>)
        /\ EndsWith(row, <<" ", "|">>)
        /\ ~Contains(row, <<"|", "|">>)
        /\ Len(cells) >= 3
        /\ ~Blank(cells[2])
        /\ ~Blank(cells[Len(cells) - 1])

\* C2: every line fix_table_column_alignment classifies as inside a table is
\* emitted starting with '| ' and ending with ' |', with no '||' and with a
\* non-empty first and last cell, and is still such a line of the text after
\* the spacing pass and the stale-section pass.
C2_TableRowsWellFormed ==
    pc # "converted" =>
        \A i \in 1..Len(InputLines) :
            InTableAt(InputLines, i) =>
                /\ WellFormedRow(AlignedLines[i])
                /\ \E k \in 1..Len(Split(markdown, "\n")) :
                       Split(markdown, "\n")[k] = AlignedLines[i]

\* The lines of the written file, and the number of entries in its table of contents.
DocumentLines == SplitLines(document)
WrittenEntries == Len(TocEntries(markdown))

\* C1: cleaning the written file removes exactly its '# Table of Contents' line
\* (line 3) and the lines of the generated table of contents (from line 5 on),
\* and keeps every other line, in order.
C1_TocRoundTrip ==
    pc = "written" =>
        CleanedLines(document) = Without(DocumentLines, {3} \cup 5..(4 + WrittenEntries))

(***************************************************************************)
(* C3: checked under SpecSpacing                                           *)
(***************************************************************************)

\* The lines of the text a pass returned.
OutputLines == Split(markdown, "\n")

\* A line that is neither blank nor a table line.
Prose(line) == ~Blank(line) /\ ~TrimmedStartsWithPipe(line)

\* Positions p < q of `lines` hold a table line and a prose line (in either
\* order) with only blank lines between them.
Neighbours(lines, p, q) ==
    /\ p < q
    /\ \/ TrimmedStartsWithPipe(lines[p]) /\ Prose(lines[q])
       \/ Prose(lines[p]) /\ TrimmedStartsWithPipe(lines[q])
    /\ \A k \in (p + 1)..(q - 1) : Blank(lines[k])

\* Number of places where a table line and a prose line are adjacent.
Adjacencies(lines) == Cardinality({p \in 1..(Len(lines) - 1) : Neighbours(lines, p, p + 1)})

\* O is I with empty lines inserted and nothing else changed.
RECURSIVE OnlyBlanksInserted(_, _)
OnlyBlanksInserted(I, O) ==
    IF O = <<>> THEN I = <<>>
    ELSE \/ I # <<>> /\ Head(I) = Head(O) /\ OnlyBlanksInserted(Tail(I), Tail(O))
         \/ Head(O) = <<>> /\ OnlyBlanksInserted(I, Tail(O))

\* C3 as stated: in the output of fix_spacing_between_tables_and_text a table
\* line and the nearest prose line before or after it are separated by exactly
\* one blank line.
C3_ExactlyOneBlank ==
    pc = "return" =>
        \A p, q \in 1..Len(OutputLines) : Neighbours(OutputLines, p, q) => q - p = 2

\* C3 as amended: a table line and the nearest prose line are separated by at
\* least one blank line; the pass inserts one empty line at each place where the
\* two were adjacent and changes nothing else, so blank lines of the input stay.
C3_AtLeastOneBlank ==
    pc = "return" =>
        /\ \A p, q \in 1..Len(OutputLines) : Neighbours(OutputLines, p, q) => q - p >= 2
        /\ OnlyBlanksInserted(InputLines, OutputLines)
        /\ Len(OutputLines) = Len(InputLines) + Adjacencies(InputLines)

\* A text with prose next to a table on both sides: two empty lines went in.
C3_Witness ==
    /\ pc = "return"
    /\ Adjacencies(InputLines) = 2
    /\ Len(OutputLines) = Len(InputLines) + 2

(***************************************************************************)
(* C4: checked under SpecClean                                             *)
(***************************************************************************)

CleanInputLines == SplitLines(input)

\* The two readings of the drop rule.  As stated: a heading has 1 to 6 '#',
\* its text is 'Table of Contents' in any letter case, and the placeholder line
\* equals the literal.  As the code has it: any number of '#', the long s
\* U+017F stands for 's' as well, and the placeholder is compared after trimming.
RuleAsStated == [maxLevel |-> MaxHeadingLevel, longS |-> FALSE, trimmed |-> FALSE]
RuleOfCode == [maxLevel |-> 0, longS |-> TRUE, trimmed |-> TRUE]

\* The trimmed line is `#`s (at most rule.maxLevel of them when that is not 0),
\* one space, and 'Table of Contents' in any letter case.
TocHeadingUnder(line, rule) ==
    LET t == Strip(line)
        h == LeadingHashes(t)
        text == IF rule.longS THEN Replace(From(t, h), "u017f", "s") ELSE From(t, h)
    IN  /\ h >= 1
        /\ rule.maxLevel > 0 => h <= rule.maxLevel
        /\ Lower(text) = Lower(<<" ">> \o TableOfContents)

\* Starts with '*' or with two spaces and '*'.
BulletItem(line) == StartsWith(line, <<"*">>) \/ StartsWith(line, <<" ", " ", "*">>)

\* Line i is dropped by the rule of C4.
DroppedAt(lines, i, rule) ==
    \/ TocHeadingUnder(lines[i], rule)
    \/ \E h \in 1..(i - 1) :
           /\ TocHeadingUnder(lines[h], rule)
           /\ \A k \in (h + 1)..i : BulletItem(lines[k])
    \/ StartsWith(Lower(Strip(lines[i])), WorkInProgress)
    \/ (IF rule.trimmed THEN Strip(lines[i]) ELSE lines[i]) = MacroPlaceholder

KeptLines(lines, rule) ==
    Without(lines, {i \in 1..Len(lines) : DroppedAt(lines, i, rule)})

\* C4 as stated: the output is the input lines without those that are a
\* 'Table of Contents' heading of 1 to 6 '#', or in the bullet run right after
\* one, or start with 'work in progress', or are the placeholder.
C4_DropRule ==
    pc = "return" => markdown = Join(KeptLines(CleanInputLines, RuleAsStated), <<"\n">>)

\* C4 as amended: the same with a heading of one or more '#' (any number), the
\* long s accepted for the 's' of the heading text, and the placeholder
\* compared with the trimmed line.
C4_DropRuleAnyLevel ==
    pc = "return" => markdown = Join(KeptLines(CleanInputLines, RuleOfCode), <<"\n">>)

\* A heading, an indented bullet of its run, and the line that ends the run.
C4_Witness ==
    /\ pc = "return"
    /\ Len(CleanInputLines) = 3
    /\ TocHeadingUnder(CleanInputLines[1], RuleOfCode)
    /\ StartsWith(CleanInputLines[2], <<" ", " ", "*">>)
    /\ ~BulletItem(CleanInputLines[3])
    /\ markdown = CleanInputLines[3]
    /\ markdown # <<>>

(***************************************************************************)
(* C5, C6: checked under SpecToc                                           *)
(***************************************************************************)

TocInputLines == SplitLines(input)

\* The entries of the returned table of contents, one per line.
ReturnedEntries == IF toc = <<>> THEN <<>> ELSE Split(toc, "\n")

\* 1 to 6 '#', then one space.
IsHeadingLine(line) ==
    /\ LeadingHashes(line) \in 1..6
    /\ LeadingHashes(line) < Len(line)
    /\ line[LeadingHashes(line) + 1] = " "

\* The trimmed text after the '#'s and the space.
TitleOf(line) == Strip(From(line, LeadingHashes(line) + 1))

\* A heading line that gets an entry: its title is not 'Table of Contents' in
\* any letter case.
ListedHeading(line) == IsHeadingLine(line) /\ Lower(TitleOf(line)) # Lower(TableOfContents)

\* n spaces.
Spaces(n) == [i \in 1..n |-> " "]

\* The entry C5 describes for a heading line.
EntryFor(line) ==
    Spaces(2 * (LeadingHashes(line) - 1))
        \o <<"*", " ", "[">> \o TitleOf(line) \o <<"]", "(", "#">>
        \o Slug(TitleOf(line)) \o <<")">>

\* C5: generate_toc returns one entry per heading line (1 to 6 '#', a space, a
\* title) whose title is not 'Table of Contents' in any letter case, in document
\* order, duplicates kept, nothing for any other line; an entry of level L is
\* 2*(L-1) spaces and '* [<title>](#<slug>)'.
C5_OneEntryPerHeading ==
    pc = "return" =>
        LET listed == SelectSeq(TocInputLines, ListedHeading)
        IN  /\ Len(ReturnedEntries) = Len(listed)
            /\ \A i \in 1..Len(listed) : ReturnedEntries[i] = EntryFor(listed[i])

\* Two equal headings of level 2 around a 'TABLE OF contents' heading: two
\* equal entries, none for the heading in between.
C5_Witness ==
    /\ pc = "return"
    /\ Len(TocInputLines) = 3
    /\ TocInputLines[1] = TocInputLines[3]
    /\ LeadingHashes(TocInputLines[1]) = 2 /\ ListedHeading(TocInputLines[1])
    /\ IsHeadingLine(TocInputLines[2]) /\ ~ListedHeading(TocInputLines[2])
    /\ TitleOf(TocInputLines[2]) # TableOfContents
    /\ Len(ReturnedEntries) = 2
    /\ ReturnedEntries[1] = ReturnedEntries[2]

\* The slug of an entry: what stands between the last '#' and the final ')'.
SlugOfEntry(e) ==
    LET h == CHOOSE k \in 1..Len(e) : e[k] = "#" /\ \A j \in (k + 1)..Len(e) : e[j] # "#"
    IN  SubSeq(e, h + 1, Len(e) - 1)

\* Lowercase word characters and the hyphen: no upper-case letter.
SlugChars ==
    Range(LowerCase) \cup Digits \cup {"_", "-"}
        \cup (NonAsciiWordChars \ {"u00c9", "u00c0", "u0130", "u212a", "u1d400"})

\* The characters of ASCII.
AsciiSlugChars == Range(LowerCase) \cup Digits \cup {"_", "-"}
Ascii == Range(UpperCase) \cup Range(LowerCase) \cup Digits
             \cup {"_", "-", " ", "\t", "!", "#", "*", "|", "."}

\* The slug of title t, character by character: every character in `hyphened`
\* gives a hyphen, a word character or hyphen gives itself in lower case, and
\* any other character gives nothing.
SlugByChar(t, hyphened) ==
    Flatten([i \in 1..Len(t) |->
                IF t[i] \in hyphened THEN <<"-">>
                ELSE IF IsWordChar(t[i]) \/ t[i] = "-" THEN LowerChar(t[i])
                ELSE <<>>])

\* The input is one listed heading line.
OneHeading == Len(TocInputLines) = 1 /\ ListedHeading(TocInputLines[1])

\* "my-section-1"
MySection1Slug == <<"m", "y", "-", "s", "e", "c", "t", "i", "o", "n", "-", "1">>

\* C6 as stated: a slug holds only lowercase word characters and hyphens, every
\* whitespace character of the trimmed title is a hyphen in it, every character
\* that is no word character, hyphen or whitespace is removed; 'My Section 1!'
\* gives 'my-section-1'.
C6_SlugWhitespaceHyphened ==
    pc = "return" =>
        /\ \A i \in 1..Len(ReturnedEntries) : Range(SlugOfEntry(ReturnedEntries[i])) \subseteq SlugChars
        /\ OneHeading =>
               SlugOfEntry(ReturnedEntries[1]) = SlugByChar(TitleOf(TocInputLines[1]), Whitespace)
        /\ input = <<"#", " ">> \o MySection1 => SlugOfEntry(ReturnedEntries[1]) = MySection1Slug

\* C6 as amended: only the space character is turned into a hyphen, other
\* whitespace (a tab, a no-break space) inside the title is removed; a word
\* character is kept as str.lower() gives it, so a slug has no whitespace and
\* holds word characters, hyphens and the combining dot U+0307 that lower-casing
\* U+0130 leaves; for a title in ASCII it holds only lowercase word characters
\* and hyphens.
C6_SlugSpaceHyphened ==
    pc = "return" =>
        /\ \A i \in 1..Len(ReturnedEntries) :
               \A c \in Range(SlugOfEntry(ReturnedEntries[i])) :
                   c \notin Whitespace /\ (IsWordChar(c) \/ c \in {"-", "u0307"})
        /\ OneHeading =>
               /\ SlugOfEntry(ReturnedEntries[1]) = SlugByChar(TitleOf(TocInputLines[1]), {" "})
               /\ Range(TitleOf(TocInputLines[1])) \subseteq Ascii =>
                      Range(SlugOfEntry(ReturnedEntries[1])) \subseteq AsciiSlugChars
        /\ input = <<"#", " ">> \o MySection1 => SlugOfEntry(ReturnedEntries[1]) = MySection1Slug

\* A title with an upper-case letter, a space and a '!': slug 'a-'.. in lower case.
C6_Witness ==
    /\ pc = "return"
    /\ OneHeading
    /\ TitleOf(TocInputLines[1]) = <<"A", " ", "!">>
    /\ SlugOfEntry(ReturnedEntries[1]) = <<"a", "-">>

(***************************************************************************)
(* C8: checked under SpecCells                                             *)
(***************************************************************************)

\* The markup of the children, cut at every line break (br) node.
RECURSIVE MarkupLines(_, _)
MarkupLines(kids, current) ==
    IF kids = <<>> THEN <<current>>
    ELSE IF Head(kids).tag = TagBr THEN <<current>> \o MarkupLines(Tail(kids), <<>>)
    ELSE MarkupLines(Tail(kids), current \o Serialize(Head(kids)))

\* The trimmed lines that start with a bullet glyph, glyph and the whitespace
\* after it taken off.
BulletItems(cell) ==
    LET lines == MarkupLines(cell.kids, <<>>)
        trimmed == [i \in 1..Len(lines) |-> Strip(lines[i])]
        bullets == SelectSeq(trimmed, LAMBDA l : l # <<>> /\ Head(l) \in {"*", "-", "u2022"})
    IN  [i \in 1..Len(bullets) |-> LStrip(Tail(bullets[i]))]

\* The inner markup begins with a bullet glyph or holds a line break.
ListCandidate(cell) ==
    \/ \E i \in 1..Len(cell.kids) : cell.kids[i].tag = TagBr
    \/ LET html == Strip(DecodeContents(cell))
       IN  html # <<>> /\ Head(html) \in {"*", "-", "u2022"}

\* The node is an unordered list of exactly these items.
IsListOf(node, items) ==
    /\ node.tag = TagUl
    /\ Len(node.kids) = Len(items)
    /\ \A i \in 1..Len(items) :
           /\ node.kids[i].tag = TagLi
           /\ node.kids[i].kids = <<TextNode(items[i])>>

\* The tree as fix_lists_in_table_cells_to_html_list received it.
TreeBeforeLists == fix_unclosed_tags(input)

\* C8: a td/th cell whose markup begins with a bullet glyph or holds a line
\* break, and in which some line (between line breaks) starts with a glyph, has
\* its content replaced by one list with one item per such line, in order; any
\* other cell, and every node that is no cell, is left unchanged.
C8_PseudoListPerLine ==
    pc = "lists_fixed" =>
        \A n \in 1..Len(soup) :
            LET before == TreeBeforeLists[n]
            IN  IF /\ before.tag \in {TagTd, TagTh}
                   /\ ListCandidate(before)
                   /\ BulletItems(before) # <<>>
                THEN /\ Len(soup[n].kids) = 1
                     /\ IsListOf(soup[n].kids[1], BulletItems(before))
                ELSE soup[n] = before

(***************************************************************************)
(* C7, C9: checked under Spec                                              *)
(***************************************************************************)

\* The image nodes (ac:image and img) of a tree, in document order.
RECURSIVE ImageNodes(_)
ImageNodes(nodes) ==
    IF nodes = <<>> THEN <<>>
    ELSE (IF Head(nodes).tag \in {TagAcImage, TagImg}
          THEN <<Head(nodes)>>
          ELSE ImageNodes(Head(nodes).kids)) \o ImageNodes(Tail(nodes))

\* The tree with every image node blanked.
RECURSIVE Skeleton(_)
Skeleton(nodes) ==
    IF nodes = <<>> THEN <<>>
    ELSE (IF Head(nodes).tag \in {TagAcImage, TagImg}
          THEN <<TextNode(<<>>)>>
          ELSE <<[Head(nodes) EXCEPT !.kids = Skeleton(Head(nodes).kids)]>>)
             \o Skeleton(Tail(nodes))

\* The file name an embedded image refers to, as a sequence of 0 or 1 name.
ReferencedFilename(img) ==
    IF /\ img.tag = TagAcImage
       /\ img.kids # <<>>
       /\ img.kids[1].tag = TagRiAttachment
       /\ img.kids[1].attrs # <<>>
       /\ img.kids[1].attrs[1].name = AttrRiFilename
    THEN <<img.kids[1].attrs[1].value>>
    ELSE <<>>

\* The local file name of each attachment title.
LocalName(filename_raw) ==
    IF filename_raw = <<"a", " ", "b">> THEN <<"a", "_", "b">>
    ELSE IF filename_raw = <<"c", ".", "d">> THEN <<"c", ".", "d">>
    ELSE <<>>

\* C7: when the ac:image loop has run, every embedded image whose file name is
\* a key of attachment_map has become <img src="./attachments/<page_id>/<mapped
\* name>">, every other image node is still the node it was, and nothing else
\* of the tree changed; attachment_map holds keys only for attachments of the
\* current page whose download completed, each mapped to its local file name.
C7_AssetRewrite ==
    /\ DOMAIN attachment_map = completed
    /\ \A k \in DOMAIN attachment_map :
           attachment_map[k] = LocalName(k) /\ attachment_map[k] # <<>>
    /\ pc \notin {"idle", "exited"} =>
           DOMAIN attachment_map \subseteq Range(input.attachments)
    /\ pc = "parsed" =>
           LET old == ImageNodes(input.soup)
               new == ImageNodes(soup)
           IN  /\ Len(new) = Len(old)
               /\ Skeleton(soup) = Skeleton(input.soup)
               /\ \A i \in 1..Len(old) :
                      LET ref == ReferencedFilename(old[i])
                      IN  IF ref # <<>> /\ ref[1] \in DOMAIN attachment_map
                          THEN new[i] = Element(TagImg,
                                   <<Attr(AttrSrc, <<".", "/", "a", "t", "t", "a", "c", "h", "m", "e", "n", "t", "s", "/">> \o page_id
                                                   \o <<"/">> \o attachment_map[ref[1]])>>,
                                   <<>>)
                          ELSE new[i] = old[i]

\* On the second page: one image replaced, one whose attachment failed to
\* download left as it was.
C7_Witness ==
    /\ pc = "parsed"
    /\ pages_done = 1
    /\ <<"a", " ", "b">> \notin DOMAIN attachment_map
    /\ <<"c", ".", "d">> \in DOMAIN attachment_map
    /\ \E i, j \in 1..Len(soup) :
           /\ soup[i] = AcImage(<<"a", " ", "b">>)
           /\ soup[j] = Element(TagImg, <<Attr(AttrSrc, <<".", "/", "a", "t", "t", "a", "c", "h", "m", "e", "n", "t", "s", "/", "p", "i", "i", "/", "c", ".", "d">>)>>, <<>>)

\* s is a prefix of t.
IsPrefix(s, t) == Len(s) <= Len(t) /\ s = SubSeq(t, 1, Len(s))

\* C9: per page the stages run in the order line-break normalization,
\* pseudo-list normalization, asset reference rewriting, conversion, column
\* realignment, spacing normalization, stale-section removal, table of contents
\* (then the file is written).
C9_PreprocessorFirst ==
    IsPrefix(stages, <<"br", "lists", "rewrite", "convert", "align", "spacing", "clean", "toc", "write">>)

=============================================================================
